---------------------------- MODULE Spec2Model ----------------------------
(***************************************************************************)
(* Model of the SEG typed view of c3dio (src/src/seg.rs): the Seg record,  *)
(* its equality, its extraction from the parameter store                   *)
(* (Seg::from_parameters) and its serialisation (Seg::write).              *)
(*                                                                         *)
(* Parameter, Parameters and Processor live in other files of the crate;   *)
(* they are modelled from the written specification (sections 3 and 4).    *)
(***************************************************************************)
EXTENDS Integers, Sequences, FiniteSets, TLC

(***************************************************************************)
(* Bounds of the model.                                                    *)
(***************************************************************************)
\* f32 values are bit patterns 1..MaxFloat, plus one NaN pattern.
MaxFloat == 2
\* how many write / re-decode round trips one run performs
MaxRounds == 1
\* group ids the caller's lookup may give to SEG
MaxGroupId == 2
\* how many field assignments a client makes on the two compared views
MaxEdits == 2

NaN == MaxFloat + 1
Finite == 1..MaxFloat
F32 == Finite \cup {NaN}

\* f32's PartialEq: IEEE comparison, a NaN equals nothing.
F32Eq(a, b) == a # NaN /\ b # NaN /\ a = b

(***************************************************************************)
(* Parameter (spec 3, 4.2): a type tag, the dimension extents, the         *)
(* flattened data.  Absent is the None of Option<Parameter>.               *)
(***************************************************************************)
Absent == [type |-> "absent", dims |-> <<>>, data |-> <<>>]

Param(type, dims, data) == [type |-> type, dims |-> dims, data |-> data]

\* Parameter::float(value): a scalar float parameter.
ParameterFloat(v) == Param("float", <<>>, <<v>>)

\* Grid<f32>: rows, cols and the flattened storage.
Grid(rows, cols, data) == [rows |-> rows, cols |-> cols, data |-> data]

\* Grid::flatten: the underlying storage.
Flatten(g) == g.data

\* Parameter::float_grid(grid): a two dimensional float parameter.
ParameterFloatGrid(g) == Param("float", <<g.rows, g.cols>>, Flatten(g))

\* TryFrom<&Parameter> for f32: a scalar of type float.
TryIntoF32(p) ==
    IF p.type # "float" THEN [ok |-> FALSE, err |-> "UnexpectedType", val |-> <<>>]
    ELSE IF p.dims # <<>> THEN [ok |-> FALSE, err |-> "DimensionMismatch", val |-> <<>>]
    ELSE [ok |-> TRUE, err |-> "", val |-> <<p.data[1]>>]

\* TryFrom<&Parameter> for Grid<f32>: a float parameter with two extents.
\* The target type carries no extents, so the conversion sees the parameter only.
TryIntoGrid(p) ==
    IF p.type # "float" THEN [ok |-> FALSE, err |-> "UnexpectedType", val |-> <<>>]
    ELSE IF Len(p.dims) # 2 THEN [ok |-> FALSE, err |-> "DimensionMismatch", val |-> <<>>]
    ELSE [ok |-> TRUE, err |-> "", val |-> <<Grid(p.dims[1], p.dims[2], p.data)>>]

(***************************************************************************)
(* The store (spec 4.3): (group, name) -> Parameter.                       *)
(***************************************************************************)
Fields == <<"marker_diameter", "data_limits", "acc_factor", "noise_factor",
            "residual_error_factor", "intersection_limit">>
FieldSet == {Fields[i] : i \in 1..Len(Fields)}

\* faulty variant: the ACC_FACTOR and NOISE_FACTOR names exchanged
FieldKey_swapped(f) ==
    CASE f = "marker_diameter" -> <<"SEG", "MARKER_DIAMETER">>
      [] f = "data_limits" -> <<"SEG", "DATA_LIMITS">>
      [] f = "acc_factor" -> <<"SEG", "NOISE_FACTOR">>
      [] f = "noise_factor" -> <<"SEG", "ACC_FACTOR">>
      [] f = "residual_error_factor" -> <<"SEG", "RESIDUAL_ERROR_FACTOR">>
      [] f = "intersection_limit" -> <<"SEG", "INTERSECTION_LIMIT">>

\* the parameter name from_parameters removes for a field
FieldKey(f) ==
    CASE f = "marker_diameter" -> <<"SEG", "MARKER_DIAMETER">>
      [] f = "data_limits" -> <<"SEG", "DATA_LIMITS">>
      [] f = "acc_factor" -> <<"SEG", "ACC_FACTOR">>
      [] f = "noise_factor" -> <<"SEG", "NOISE_FACTOR">>
      [] f = "residual_error_factor" -> <<"SEG", "RESIDUAL_ERROR_FACTOR">>
      [] f = "intersection_limit" -> <<"SEG", "INTERSECTION_LIMIT">>

SegKeys == {<<"SEG", "MARKER_DIAMETER">>, <<"SEG", "DATA_LIMITS">>, <<"SEG", "ACC_FACTOR">>,
            <<"SEG", "NOISE_FACTOR">>, <<"SEG", "RESIDUAL_ERROR_FACTOR">>,
            <<"SEG", "INTERSECTION_LIMIT">>}
\* an undocumented parameter of SEG and a parameter of another group
OtherKeys == {<<"SEG", "CUSTOM">>, <<"POINT", "RATE">>}
Keys == SegKeys \cup OtherKeys

\* Parameters::remove(group, name): the parameter, and the store without it.
Remove(st, key) == [st EXCEPT ![key] = Absent]


\* Option<T>: <<>> is None, <<v>> is Some(v).
None == <<>>
Some(v) == <<v>>

(***************************************************************************)
(* Seg (seg.rs 13-36): six optional fields.  Seg::default() has them all   *)
(* None.                                                                   *)
(***************************************************************************)
SegDefault == [f \in FieldSet |-> None]

\* the conversion each field's declared type selects (seg.rs 91, 96, 101, ...)
Convert(f, p) == IF f = "data_limits" THEN TryIntoGrid(p) ELSE TryIntoF32(p)

\* faulty variant: a failed conversion taken as an absent field (.ok() for ?)
TakeField_swallow(f, st) ==
    LET p == st[FieldKey(f)]
    IN  IF p = Absent \/ ~Convert(f, p).ok THEN [ok |-> TRUE, err |-> "", val |-> None]
        ELSE Convert(f, p)

\* one `match parameters.remove(..) { None => None, Some(p) => Some(p.try_into()?) }`
TakeField(f, st) ==
    LET p == st[FieldKey(f)]
    IN  IF p = Absent THEN [ok |-> TRUE, err |-> "", val |-> None]
        ELSE Convert(f, p)

\* faulty variant: the whole SEG group is emptied along with the field
Step_drain_group(acc, f) ==
    IF ~acc.ok THEN acc
    ELSE LET t == TakeField(f, acc.store)
             st2 == [k \in Keys |-> IF k = FieldKey(f) \/ (k[1] = "SEG" /\ k \notin SegKeys)
                                    THEN Absent ELSE acc.store[k]]
         IN  IF t.ok
             THEN [ok |-> TRUE, err |-> "", view |-> [acc.view EXCEPT ![f] = t.val],
                   store |-> st2]
             ELSE [ok |-> FALSE, err |-> t.err, view |-> acc.view, store |-> st2]

\* faulty variant: the removals go on after a failed conversion
Step_no_early_return(acc, f) ==
    LET t == TakeField(f, acc.store)
        st2 == Remove(acc.store, FieldKey(f))
    IN  IF ~acc.ok THEN [acc EXCEPT !.store = st2]
        ELSE IF t.ok
             THEN [ok |-> TRUE, err |-> "", view |-> [acc.view EXCEPT ![f] = t.val],
                   store |-> st2]
             ELSE [ok |-> FALSE, err |-> t.err, view |-> acc.view, store |-> st2]

\* one field's block of from_parameters: remove, convert, `?` returns early.
Step(acc, f) ==
    IF ~acc.ok THEN acc
    ELSE LET t == TakeField(f, acc.store)
             st2 == Remove(acc.store, FieldKey(f))
         IN  IF t.ok
             THEN [ok |-> TRUE, err |-> "", view |-> [acc.view EXCEPT ![f] = t.val],
                   store |-> st2]
             ELSE [ok |-> FALSE, err |-> t.err, view |-> acc.view, store |-> st2]

\* faulty variant: a parameter of SEG that is not documented is an error
from_parameters_strict(st) ==
    LET a0 == [ok |-> TRUE, err |-> "", view |-> SegDefault, store |-> st]
        a6 == Step(Step(Step(Step(Step(Step(a0, Fields[1]), Fields[2]), Fields[3]),
                   Fields[4]), Fields[5]), Fields[6])
        unknown == \E k \in Keys \ SegKeys : k[1] = "SEG" /\ st[k] # Absent
    IN  IF a6.ok /\ unknown
        THEN [ok |-> FALSE, err |-> "UnknownParameter", seg |-> None, store |-> a6.store]
        ELSE [ok |-> a6.ok, err |-> a6.err,
              seg |-> IF a6.ok THEN Some(a6.view) ELSE None,
              store |-> a6.store]

\* Seg::from_parameters: the six blocks in source order, then Ok(Seg {..}).
from_parameters(st) ==
    LET a0 == [ok |-> TRUE, err |-> "", view |-> SegDefault, store |-> st]
        a6 == Step(Step(Step(Step(Step(Step(a0, Fields[1]), Fields[2]), Fields[3]),
                   Fields[4]), Fields[5]), Fields[6])
    IN  [ok |-> a6.ok, err |-> a6.err,
         seg |-> IF a6.ok THEN Some(a6.view) ELSE None,
         store |-> a6.store]

(***************************************************************************)
(* Processor (spec 4.1) and Parameter::write (spec 4.2).                   *)
(***************************************************************************)
Processors == {"Intel", "Dec", "SgiMips"}

\* the four bytes of a float, least significant first
F32Bytes(v) == <<v % 256, (v \div 256) % 256, 0, 0>>

\* Processor::f32_to_bytes: the byte order of the vendor layout
EncodeF32(proc, v) ==
    LET b == F32Bytes(v)
    IN  CASE proc = "Intel" -> b
          [] proc = "Dec" -> <<b[3], b[4], b[1], b[2]>>
          [] proc = "SgiMips" -> <<b[4], b[3], b[2], b[1]>>

\* Processor::f32: the inverse reading
DecodeF32(proc, w) ==
    LET b == CASE proc = "Intel" -> w
               [] proc = "Dec" -> <<w[3], w[4], w[1], w[2]>>
               [] proc = "SgiMips" -> <<w[4], w[3], w[2], w[1]>>
    IN  b[1] + 256 * b[2]

NameLen(name) ==
    CASE name = "MARKER_DIAMETER" -> 15
      [] name = "DATA_LIMITS" -> 11
      [] name = "ACC_FACTOR" -> 10
      [] name = "NOISE_FACTOR" -> 12
      [] name = "RESIDUAL_ERROR_FACTOR" -> 21
      [] name = "INTERSECTION_LIMIT" -> 18

\* Parameter::write(processor, name, group_id, locked): one parameter record.
ParameterWrite(p, proc, name, gid, locked) ==
    [name_len |-> IF locked THEN 0 - NameLen(name) ELSE NameLen(name),
     name |-> name,
     group_id |-> gid,
     data_type |-> p.type,
     dims |-> p.dims,
     data |-> [i \in 1..Len(p.data) |-> EncodeF32(proc, p.data[i])],
     desc_len |-> 0]

\* reading one parameter record back (the file reader)
ParameterRead(rec, proc) ==
    Param(rec.data_type, rec.dims, [i \in 1..Len(rec.data) |-> DecodeF32(proc, rec.data[i])])

(***************************************************************************)
(* Seg::write (seg.rs 131-186).                                            *)
(***************************************************************************)
\* faulty variant: the ACC_FACTOR and NOISE_FACTOR names exchanged
WriteName_swapped(f) ==
    CASE f = "marker_diameter" -> "MARKER_DIAMETER"
      [] f = "data_limits" -> "DATA_LIMITS"
      [] f = "acc_factor" -> "NOISE_FACTOR"
      [] f = "noise_factor" -> "ACC_FACTOR"
      [] f = "residual_error_factor" -> "RESIDUAL_ERROR_FACTOR"
      [] f = "intersection_limit" -> "INTERSECTION_LIMIT"

\* the name each block of write passes to Parameter::write
WriteName(f) ==
    CASE f = "marker_diameter" -> "MARKER_DIAMETER"
      [] f = "data_limits" -> "DATA_LIMITS"
      [] f = "acc_factor" -> "ACC_FACTOR"
      [] f = "noise_factor" -> "NOISE_FACTOR"
      [] f = "residual_error_factor" -> "RESIDUAL_ERROR_FACTOR"
      [] f = "intersection_limit" -> "INTERSECTION_LIMIT"

\* Parameter::float(..) or Parameter::float_grid(..), by the field's type
FieldParam(f, v) == IF f = "data_limits" THEN ParameterFloatGrid(v) ELSE ParameterFloat(v)

\* one `if self.f.is_some() { bytes.extend(..write(.., group_names_to_ids["SEG"], false)?) }`
\* HashMap's Index panics when the key is missing.
WriteStep(acc, f, view, proc, ids) ==
    IF acc.status # "ok" THEN acc
    ELSE IF view[f] = None THEN acc
    ELSE IF "SEG" \notin DOMAIN ids THEN [status |-> "panic", bytes |-> <<>>]
    ELSE [status |-> "ok",
          bytes |-> acc.bytes \o
                    <<ParameterWrite(FieldParam(f, view[f][1]), proc, WriteName(f),
                                     ids["SEG"], FALSE)>>]

\* faulty variant: the DATA_LIMITS block placed last
write_reordered(view, proc, ids) ==
    LET b0 == [status |-> "ok", bytes |-> <<>>]
        W(acc, i) == WriteStep(acc, Fields[i], view, proc, ids)
    IN  W(W(W(W(W(W(b0, 1), 3), 4), 5), 6), 2)

\* Seg::write: the six blocks in source order, then Ok(bytes).
write(view, proc, ids) ==
    LET b0 == [status |-> "ok", bytes |-> <<>>]
        W(acc, i) == WriteStep(acc, Fields[i], view, proc, ids)
    IN  W(W(W(W(W(W(b0, 1), 2), 3), 4), 5), 6)

(***************************************************************************)
(* impl PartialEq for Seg (seg.rs 38-58).                                  *)
(***************************************************************************)
\* Option<f32> == Option<f32>
OptF32Eq(x, y) ==
    IF x = None THEN y = None
    ELSE IF y = None THEN FALSE
    ELSE F32Eq(x[1], y[1])

\* Vec<f32> == Vec<f32>
VecF32Eq(u, v) == Len(u) = Len(v) /\ \A i \in 1..Len(u) : F32Eq(u[i], v[i])

\* faulty variant: the grids compared whole, extents included
data_limits_eq_shape(a, b) == a.data_limits = b.data_limits

\* the data_limits_eq local of eq
data_limits_eq(a, b) ==
    IF a.data_limits # None
    THEN IF b.data_limits # None
         THEN VecF32Eq(Flatten(a.data_limits[1]), Flatten(b.data_limits[1]))
         ELSE FALSE
    ELSE IF b.data_limits # None THEN FALSE
    ELSE TRUE

\* Seg::eq
SegEq(a, b) ==
    /\ OptF32Eq(a.marker_diameter, b.marker_diameter)
    /\ data_limits_eq(a, b)
    /\ OptF32Eq(a.acc_factor, b.acc_factor)
    /\ OptF32Eq(a.noise_factor, b.noise_factor)
    /\ OptF32Eq(a.residual_error_factor, b.residual_error_factor)
    /\ OptF32Eq(a.intersection_limit, b.intersection_limit)

(***************************************************************************)
(* Inputs.                                                                 *)
(***************************************************************************)
\* data of n floats running through the bit patterns, NaN included
Ramp(n) == [i \in 1..n |-> ((i - 1) % (MaxFloat + 1)) + 1]

\* what a file may hold under a scalar SEG name: nothing, a float scalar,
\* an integer scalar
ScalarParams ==
    {Absent} \cup {ParameterFloat(v) : v \in F32} \cup {Param("int16", <<>>, <<1>>)}

\* what a file may hold under DATA_LIMITS
GridParams ==
    {Absent, Param("float", <<3, 2>>, Ramp(6)), Param("float", <<2, 2>>, Ramp(4)),
     Param("int16", <<3, 2>>, Ramp(6)), ParameterFloat(1)}

OtherParam(k) == IF k[1] = "SEG" THEN ParameterFloat(1) ELSE Param("int16", <<>>, <<1>>)

\* the store a file decodes to: its SEG parameters, and the two others
StoreOf(md, dl, acc, nf, ref, il) ==
    [k \in Keys |->
        CASE k = <<"SEG", "MARKER_DIAMETER">> -> md
          [] k = <<"SEG", "DATA_LIMITS">> -> dl
          [] k = <<"SEG", "ACC_FACTOR">> -> acc
          [] k = <<"SEG", "NOISE_FACTOR">> -> nf
          [] k = <<"SEG", "RESIDUAL_ERROR_FACTOR">> -> ref
          [] k = <<"SEG", "INTERSECTION_LIMIT">> -> il
          [] OTHER -> OtherParam(k)]

Stores ==
    {StoreOf(md, dl, acc, nf, ref, il) :
        md \in ScalarParams, dl \in GridParams, acc \in ScalarParams,
        nf \in ScalarParams, ref \in ScalarParams, il \in ScalarParams}

\* the caller's group_names_to_ids: POINT always, SEG when the group was created
PointId == MaxGroupId + 1
IdMaps ==
    {[g \in {"POINT"} |-> PointId]} \cup
    {[g \in {"POINT", "SEG"} |-> IF g = "SEG" THEN i ELSE PointId] : i \in 1..MaxGroupId}


\* data of n floats alternating between two bit patterns
Fill(n, a, b) == [i \in 1..n |-> IF i % 2 = 1 THEN a ELSE b]

\* the values a client may assign to a field of a view
FieldValues(f) ==
    IF f = "data_limits"
    THEN {None} \cup {Some(Grid(3, 2, d)) : d \in {Fill(6, a, 1) : a \in F32}}
                \cup {Some(Grid(2, 3, d)) : d \in {Fill(6, 1, a) : a \in F32}}
                \cup {Some(Grid(3, 2, d)) : d \in {Fill(6, 1, a) : a \in F32}}
    ELSE {None} \cup {Some(v) : v \in F32}

\* the file a write leaves behind: its outcome, its records, and the processor
\* and group ids it was written with
NoFile == [status |-> "none", bytes |-> <<>>, proc |-> "none",
           ids |-> [g \in {"POINT"} |-> PointId]]

\* the key a record is read back under: its group id resolved, and its name
RecordKey(rec, ids) == <<CHOOSE g \in DOMAIN ids : ids[g] = rec.group_id, rec.name>>

\* re-reading the written file: the view's records, and what was left in the
\* store passed through
Reread(st, file) ==
    [k \in Keys |->
        IF \E i \in 1..Len(file.bytes) : RecordKey(file.bytes[i], file.ids) = k
        THEN LET i == CHOOSE j \in 1..Len(file.bytes) : RecordKey(file.bytes[j], file.ids) = k
             IN  ParameterRead(file.bytes[i], file.proc)
        ELSE st[k]]

(***************************************************************************)
(* State.                                                                  *)
(*   store    the Parameters being decoded                                 *)
(*   init0    the store at the start of this decode pass                   *)
(*   store0   the store handed to the last from_parameters call            *)
(*   removed  the keys other views removed in this pass                    *)
(*   fresh    no one touched the store since from_parameters returned      *)
(*   seg, err the Result of from_parameters: Some(view), or the error      *)
(*   seg0     the view last handed to write                                *)
(*   out      the outcome of write                                         *)
(*   round    completed write / re-read round trips                        *)
(*   lhs, rhs two views a client builds and compares; eqRes the outcome    *)
(***************************************************************************)
VARIABLES store, init0, store0, removed, fresh, pc, seg, err, seg0, out, round,
          lhs, rhs, eqRes, edits

vars == <<store, init0, store0, removed, fresh, pc, seg, err, seg0, out, round,
          lhs, rhs, eqRes, edits>>

decodeVars == <<store, init0, store0, removed, fresh, pc, seg, err, seg0, out, round>>
eqVars == <<lhs, rhs, eqRes, edits>>

InitEq ==
    /\ lhs = SegDefault
    /\ rhs = SegDefault
    /\ eqRes = "unset"
    /\ edits = 0

InitDecode(st) ==
    /\ store = st
    /\ init0 = st
    /\ store0 = st
    /\ removed = {}
    /\ fresh = FALSE
    /\ pc = "start"
    /\ seg = None
    /\ err = ""
    /\ seg0 = None
    /\ out = NoFile
    /\ round = 0

Init == (\E st \in Stores : InitDecode(st)) /\ InitEq

\* Seg::from_parameters(&mut parameters)
FromParameters ==
    /\ pc = "start"
    /\ LET r == from_parameters(store)
       IN  /\ store0' = store
           /\ store' = r.store
           /\ seg' = r.seg
           /\ err' = r.err
           /\ pc' = IF r.ok THEN "parsed" ELSE "failed"
    /\ fresh' = TRUE
    /\ UNCHANGED <<init0, removed, seg0, out, round>>
    /\ UNCHANGED eqVars

\* another view's extraction: parameters.remove on a key that is not one of SEG's six
RemoveOther(k) ==
    /\ pc \in {"start", "parsed"}
    /\ store[k] # Absent
    /\ store' = Remove(store, k)
    /\ removed' = removed \cup {k}
    /\ fresh' = FALSE
    /\ UNCHANGED <<init0, store0, pc, seg, err, seg0, out, round>>
    /\ UNCHANGED eqVars

\* seg.write(&processor, &group_names_to_ids)
Write(proc, ids) ==
    /\ pc = "parsed"
    /\ LET w == write(seg[1], proc, ids)
       IN  /\ out' = [status |-> w.status, bytes |-> w.bytes, proc |-> proc, ids |-> ids]
           /\ pc' = IF w.status = "ok" THEN "written" ELSE "panicked"
    /\ seg0' = seg
    /\ UNCHANGED <<store, init0, store0, removed, fresh, seg, err, round>>
    /\ UNCHANGED eqVars

\* the written file is read back into a store and a new decode pass starts
Decode ==
    /\ pc = "written"
    /\ round < MaxRounds
    /\ "SEG" \in DOMAIN out.ids
    /\ LET st == Reread(store, out)
       IN  /\ store' = st
           /\ init0' = st
           /\ store0' = st
    /\ removed' = {}
    /\ fresh' = FALSE
    /\ pc' = "start"
    /\ seg' = None
    /\ err' = ""
    /\ out' = NoFile
    /\ round' = round + 1
    /\ UNCHANGED seg0
    /\ UNCHANGED eqVars

\* extraction: the SEG view and the other views take their parameters
Next ==
    \/ FromParameters
    \/ \E k \in OtherKeys : RemoveOther(k)

Spec == Init /\ [][Next]_vars

\* the view is extracted, written, read back and extracted again
NextWrite ==
    \/ FromParameters
    \/ \E proc \in Processors, ids \in IdMaps : Write(proc, ids)
    \/ Decode

SpecWrite == Init /\ [][NextWrite]_vars

(***************************************************************************)
(* Two views built by assignment to their public fields and compared.      *)
(***************************************************************************)
InitCompare ==
    /\ InitDecode(StoreOf(Absent, Absent, Absent, Absent, Absent, Absent))
    /\ InitEq

\* lhs.f = v  or  rhs.f = v
SetField(side, f, v) ==
    /\ edits < MaxEdits
    /\ edits' = edits + 1
    /\ IF side = "lhs"
       THEN lhs' = [lhs EXCEPT ![f] = v] /\ UNCHANGED rhs
       ELSE rhs' = [rhs EXCEPT ![f] = v] /\ UNCHANGED lhs
    /\ eqRes' = "unset"
    /\ UNCHANGED decodeVars

\* lhs == rhs
Compare ==
    /\ eqRes = "unset"
    /\ eqRes' = IF SegEq(lhs, rhs) THEN "equal" ELSE "unequal"
    /\ UNCHANGED <<lhs, rhs, edits>>
    /\ UNCHANGED decodeVars

\* rhs = lhs.clone()
Clone ==
    /\ rhs # lhs
    /\ rhs' = lhs
    /\ eqRes' = "unset"
    /\ UNCHANGED <<lhs, edits>>
    /\ UNCHANGED decodeVars

NextCompare ==
    \/ Clone
    \/ \E side \in {"lhs", "rhs"}, f \in FieldSet : \E v \in FieldValues(f) : SetField(side, f, v)
    \/ Compare

SpecCompare == InitCompare /\ [][NextCompare]_vars

(***************************************************************************)
(* Properties.                                                             *)
(***************************************************************************)
\* the documented SEG parameters, in declared order, and the field each fills
DocOrder == <<"MARKER_DIAMETER", "DATA_LIMITS", "ACC_FACTOR", "NOISE_FACTOR",
              "RESIDUAL_ERROR_FACTOR", "INTERSECTION_LIMIT">>
DocField(i) == Fields[i]
DocKey(i) == <<"SEG", DocOrder[i]>>
DocIndex(name) == CHOOSE i \in 1..6 : DocOrder[i] = name

\* the stored parameter does not have the type field i expects
Unconvertible(i, p) ==
    IF i = 2 THEN p.type # "float" \/ Len(p.dims) # 2
    ELSE p.type # "float" \/ p.dims # <<>>

\* the typed value of a stored parameter for field i
Typed(i, p) == IF i = 2 THEN Grid(p.dims[1], p.dims[2], p.data) ELSE p.data[1]

\* the documented parameters of a store whose conversion fails
Offending(st) == {i \in 1..6 : st[DocKey(i)] # Absent /\ Unconvertible(i, st[DocKey(i)])}

Min(S) == CHOOSE x \in S : \A y \in S : x <= y

\* C2: after a successful from_parameters each field is None exactly when the
\* store held no parameter under its own name, and otherwise is Some of the
\* typed conversion of the parameter stored under that name.
C2_FieldsFromOwnKeys ==
    pc = "parsed" =>
        \A i \in 1..6 :
            LET p == store0[DocKey(i)]
            IN  IF p = Absent THEN seg[1][DocField(i)] = None
                ELSE seg[1][DocField(i)] = Some(Typed(i, p))

\* the scenario of the specification: one float field set, all others absent
C2_Witness ==
    /\ pc = "parsed"
    /\ store0[DocKey(3)] = ParameterFloat(2)
    /\ \A i \in 1..6 \ {3} : store0[DocKey(i)] = Absent
    /\ seg[1].acc_factor = Some(2)
    /\ \A i \in 1..6 \ {3} : seg[1][DocField(i)] = None

\* C3: when a documented parameter is present and its conversion fails,
\* from_parameters returns an error and no view, whatever else is present.
C3_ConversionFailureIsFatal ==
    (pc # "start" /\ Offending(store0) # {}) =>
        /\ pc = "failed"
        /\ seg = None
        /\ err # ""

\* the last field offends, four others are present and convertible
C3_Witness ==
    /\ pc = "failed"
    /\ Offending(store0) = {6}
    /\ Cardinality({i \in 1..5 : store0[DocKey(i)] # Absent}) >= 4
    /\ seg = None

\* C6: a successful from_parameters leaves none of the six documented keys in
\* the store and every other entry as it was; an undocumented parameter of
\* SEG never makes it fail.
C6_OnlyDocumentedKeysRemoved ==
    /\ (pc = "parsed" /\ fresh) =>
          /\ \A i \in 1..6 : store[DocKey(i)] = Absent
          /\ \A k \in OtherKeys : store[k] = store0[k]
    /\ (pc = "failed") => Offending(store0) # {}

C6_Witness ==
    /\ pc = "parsed"
    /\ fresh
    /\ \A i \in 1..6 : store0[DocKey(i)] # Absent
    /\ store[<<"SEG", "CUSTOM">>] = ParameterFloat(1)
    /\ store[<<"POINT", "RATE">>] # Absent

\* C10: when the conversion fails at the k-th documented field, the first k
\* documented keys are gone from the store, the later ones are as before, and
\* the error is that of the k-th field.
C10_FailureLeavesPrefixRemoved ==
    (pc = "failed" /\ fresh) =>
        /\ Offending(store0) # {}
        /\ LET k == Min(Offending(store0))
           IN  /\ \A i \in 1..k : store[DocKey(i)] = Absent
               /\ \A i \in (k + 1)..6 : store[DocKey(i)] = store0[DocKey(i)]
               /\ \A o \in OtherKeys : store[o] = store0[o]
               /\ err = IF store0[DocKey(k)].type # "float" THEN "UnexpectedType"
                        ELSE "DimensionMismatch"

\* DATA_LIMITS fails first, a later field would fail too and is still stored
C10_Witness ==
    /\ pc = "failed"
    /\ fresh
    /\ Offending(store0) = {2, 4}
    /\ store0[DocKey(1)] # Absent
    /\ store[DocKey(1)] = Absent
    /\ store[DocKey(4)] = store0[DocKey(4)]
    /\ store[DocKey(6)] # Absent
    /\ err = "DimensionMismatch"

\* C9: whatever removals of other keys happen before or after it,
\* from_parameters gives the result it gives on the untouched store, and the
\* store ends as that call leaves it, less the other keys removed.
C9_OrderIndependent ==
    (pc \in {"parsed", "failed"}) =>
        LET r == from_parameters(init0)
        IN  /\ seg = r.seg
            /\ err = r.err
            /\ \A k \in Keys : store[k] = IF k \in removed THEN Absent ELSE r.store[k]

\* one other key removed before the call and one after it
C9_Witness ==
    /\ pc = "parsed"
    /\ store0[<<"SEG", "CUSTOM">>] = Absent
    /\ store0[<<"POINT", "RATE">>] # Absent
    /\ store[<<"POINT", "RATE">>] = Absent
    /\ seg[1].noise_factor # None

\* C7: DATA_LIMITS stored as a float grid whose extents are not 3x2 makes
\* from_parameters fail with a dimension mismatch and return no view.
C7_ShapeChecked ==
    LET p == store0[DocKey(2)]
    IN  (pc # "start" /\ p.type = "float" /\ Len(p.dims) = 2 /\ p.dims # <<3, 2>>
           /\ Offending(store0) \subseteq {2}) =>
            /\ pc = "failed"
            /\ seg = None
            /\ err = "DimensionMismatch"

\* the fields of a view that are Some, as indices of the declared order
Present(view) == {i \in 1..6 : view[DocField(i)] # None}

\* the parameter a record must carry for field i of a view
Carried(i, view) ==
    IF i = 2 THEN [type |-> "float",
                   dims |-> <<view.data_limits[1].rows, view.data_limits[1].cols>>,
                   data |-> view.data_limits[1].data]
    ELSE [type |-> "float", dims |-> <<>>, data |-> <<view[DocField(i)][1]>>]

\* C4: the output of a successful write is one record per field that is
\* Some, none for a field that is None, in the declared order: as many
\* records as present fields, names strictly ascending in declared order,
\* each record unlocked, stamped with SEG's id and carrying its field's value.
C4_OneRecordPerPresentField ==
    pc = "written" =>
        LET view == seg0[1]
            recs == out.bytes
        IN  /\ out.status = "ok"
            /\ Len(recs) = Cardinality(Present(view))
            /\ \A n \in 1..Len(recs) : recs[n].name \in {DocOrder[i] : i \in Present(view)}
            /\ \A n \in 1..(Len(recs) - 1) :
                   DocIndex(recs[n].name) < DocIndex(recs[n + 1].name)
            /\ \A n \in 1..Len(recs) :
                   /\ recs[n].name_len > 0
                   /\ recs[n].group_id = out.ids["SEG"]
                   /\ ParameterRead(recs[n], out.proc) = Carried(DocIndex(recs[n].name), view)

\* three fields present, among them the grid, and three absent
C4_Witness ==
    /\ pc = "written"
    /\ Present(seg0[1]) = {2, 4, 6}
    /\ Len(out.bytes) = 3
    /\ out.bytes[1].name = "DATA_LIMITS"
    /\ out.bytes[3].name = "INTERSECTION_LIMIT"

\* C1: a view that was written and read back is extracted again with every
\* field as it was: absent fields absent, present scalars with the same
\* value, a present grid with the same flattened contents; the second
\* extraction does not fail.  Under Seg's == the two views then compare equal
\* unless a NaN is among the values.
SameFields(v, w) ==
    /\ \A i \in 1..6 \ {2} : v[DocField(i)] = w[DocField(i)]
    /\ (v.data_limits = None) = (w.data_limits = None)
    /\ v.data_limits # None => v.data_limits[1].data = w.data_limits[1].data

HasNaN(v) ==
    \/ \E i \in 1..6 \ {2} : v[DocField(i)] = Some(NaN)
    \/ v.data_limits # None /\ \E n \in 1..Len(v.data_limits[1].data) : v.data_limits[1].data[n] = NaN

C1_RoundTrip ==
    (round >= 1 /\ pc \in {"parsed", "failed"}) =>
        /\ pc = "parsed"
        /\ SameFields(seg[1], seg0[1])
        /\ HasNaN(seg0[1]) \/ SegEq(seg[1], seg0[1])

\* a round trip of a view with two scalars, one of them NaN, a grid and three
\* absent fields
C1_Witness ==
    /\ round = 1
    /\ pc = "parsed"
    /\ Present(seg0[1]) = {1, 2, 5}
    /\ seg0[1].marker_diameter = Some(2)
    /\ seg[1].marker_diameter = Some(2)
    /\ seg[1].residual_error_factor = Some(NaN)
    /\ seg[1].data_limits # None

\* C5: when the lookup handed to write has no entry for SEG, write returns an
\* error value, for every view.
C5_MissingGroupIsAnError ==
    (pc \in {"written", "panicked"} /\ "SEG" \notin DOMAIN out.ids) => out.status = "err"

\* C8: two views compare equal exactly when every field is absent in both or
\* present in both with equal values (f32's ==, under which a NaN equals
\* nothing); two present grids are equal exactly when their flattened contents
\* agree element by element in order, whatever their extents.
SameFlat(g, h) ==
    /\ Len(g.data) = Len(h.data)
    /\ \A n \in 1..Len(g.data) : g.data[n] # NaN /\ g.data[n] = h.data[n]

=============================================================================
